---- MODULE Spec2Model ----
(***************************************************************************)
(* Pseudo-labelling and training loops of SHOT (open-set domain            *)
(* adaptation): obtain_label, get_mem_label, train, validate and main of   *)
(* shot/train_target_oda.py.                                               *)
(*                                                                         *)
(* Numbers.  A feature vector is a one-dimensional integer, a softmax row  *)
(* is a vector of integer weights p[k] (the probability is                 *)
(* p[k] / Resolution), and every mean is kept as an exact fraction         *)
(* [sum, w] and compared by cross-multiplication.  The stability constant  *)
(* 1e-8 of lines 81 and 93 is kept only where it decides the value: a      *)
(* class of weight 0 has the prototype 0 / 1e-8 = 0.  The distance is      *)
(* cfg.model.distance = 'euclidean'.                                       *)
(***************************************************************************)
EXTENDS Integers, Sequences, FiniteSets, TLC

\* Python's None; an optional number x is kept as <<x>>
None == <<>>

\* ---------------------------------------------------------------- bounds
NumSamples == 4        \* records of one pass of the test loader
MaxThreshold == 1      \* cfg.train.threshold ranges over 0..MaxThreshold

\* cfg.dataset.class_num: the number of known classes and the sentinel
class_num == 2

Classes == 0 .. (class_num - 1)

\* a softmax row is a vector of integer weights summing to Resolution
Resolution == class_num

\* the feature values of the model
Feas == {0, 1}

\* ------------------------------------------------------------ arithmetic
RECURSIVE SumTo(_, _)
SumTo(F, n) == IF n = 0 THEN 0 ELSE F[n] + SumTo(F, n - 1)

Sum(F) == SumTo(F, Len(F))

Abs(x) == IF x < 0 THEN -x ELSE x

\* the members of a set of integers, ascending (np.where returns them so)
RECURSIVE Ascending(_)
Ascending(S) ==
    IF S = {} THEN <<>>
    ELSE LET m == CHOOSE x \in S : \A y \in S : x <= y
         IN  <<m>> \o Ascending(S \ {m})

\* 1000 * ln(c), rounded
Ln1000(c) ==
    CASE c = 1 -> 0
      [] c = 2 -> 693
      [] c = 3 -> 1099
      [] c = 4 -> 1386
      [] c = 5 -> 1609
      [] c = 6 -> 1792
      [] OTHER -> 1946

\* ------------------------------------------------------------- the pass
\* the softmax rows of the model: weights over the classes, summing to Resolution
Dists == { p \in [Classes -> 0 .. Resolution] :
             Sum([j \in 1 .. class_num |-> p[j - 1]]) = Resolution }

\* ground-truth label vectors of a pass of n records: two vectors that
\* differ at every record (a target label may be an unknown class)
GroundTruths(n) == { [i \in 1 .. n |-> (i + sh) % (class_num + 1)] : sh \in 0 .. 1 }

\* what the loop of lines 34-49 collects from the loader, after the softmax
\* of line 51: one feature, one softmax row and one label per record
Passes(n) == [ fea : [1 .. n -> Feas],
               out : [1 .. n -> Dists],
               lab : GroundTruths(n) ]

\* line 52: torch.max(all_output, 1), the first index of the largest value
ArgMax(p) ==
    CHOOSE k \in DOMAIN p :
        /\ \A j \in DOMAIN p : p[j] <= p[k]
        /\ \A j \in DOMAIN p : j < k => p[j] < p[k]

predict(all_output) == [i \in DOMAIN all_output |-> ArgMax(all_output[i])]

\* lines 53 and 101: an accuracy, as [num, den]
before_acc(pred, all_label) ==
    [ num |-> Cardinality({ i \in DOMAIN pred : pred[i] = all_label[i] }),
      den |-> Len(all_label) ]

\* line 58 for one row: -sum p log(p + eps) / log(class_num), in thousandths
\* (p = c / R: the sum is (R ln R - sum c ln c) / R)
Entropy(p) ==
    LET R   == Sum([j \in 1 .. class_num |-> p[j - 1]])
        raw == R * Ln1000(R)
               - Sum([j \in 1 .. class_num |->
                        IF p[j - 1] = 0 THEN 0 ELSE p[j - 1] * Ln1000(p[j - 1])])
    IN  (1000 * raw) \div (R * Ln1000(class_num))

ent(all_output) == [i \in DOMAIN all_output |-> Entropy(all_output[i])]

\* ------------------------------------------------- the open-set splitter
\* the scores of the records with label c, as the fraction [sum, w] of their mean
ClusterMean(e, l, c) ==
    [ sum |-> Sum([i \in 1 .. Len(e) |-> IF l[i] = c THEN e[i] ELSE 0]),
      w   |-> Cardinality({ i \in 1 .. Len(e) : l[i] = c }) ]

\* |x - a| <= |x - b| and |x - a| < |x - b| for the fractions a, b of non-zero weight
NoFarther(x, a, b) == Abs(x * a.w - a.sum) * b.w <= Abs(x * b.w - b.sum) * a.w
Nearer(x, a, b) == Abs(x * a.w - a.sum) * b.w < Abs(x * b.w - b.sum) * a.w

\* lines 62-63: sklearn's KMeans(2, random_state=0).fit(ent) ends at a fixed
\* point of Lloyd's iteration: two non-empty clusters, each centre the mean of
\* its cluster, each score labelled with its nearest centre (centre 0 on a
\* tie); which of the two is cluster 0 depends on the seeding.  When every
\* score is the same the two seeds coincide and every record is labelled 0.
KMeansFits(e) ==
    IF \A i \in 1 .. Len(e) : e[i] = e[1]
    THEN { [i \in 1 .. Len(e) |-> 0] }
    ELSE { l \in [1 .. Len(e) -> {0, 1}] :
             /\ \E i \in 1 .. Len(e) : l[i] = 0
             /\ \E i \in 1 .. Len(e) : l[i] = 1
             /\ LET c0 == ClusterMean(e, l, 0)
                    c1 == ClusterMean(e, l, 1)
                IN  \A i \in 1 .. Len(e) :
                        IF l[i] = 0 THEN NoFarther(e[i], c0, c1)
                                    ELSE Nearer(e[i], c1, c0) }

\* kmeans.cluster_centers_: the mean of each cluster; an empty cluster keeps
\* its seed, a score of the pass
cluster_centers_(e, l) ==
    [c \in {0, 1} |->
        IF \E i \in 1 .. Len(e) : l[i] = c THEN ClusterMean(e, l, c)
                                           ELSE [sum |-> e[1], w |-> 1]]

\* lines 65-68: cluster 1 is UNKNOWN when its mean exceeds the mean of all
\* scores; the mean of an empty cluster is nan, and nan > x is False
iidxBelow(e, l) ==
    LET idx == ClusterMean(e, l, 1)
    IN  IF idx.w > 0 /\ idx.sum * Len(e) < Sum(e) * idx.w THEN 1 ELSE 0

iidx(e, l) ==
    LET idx == ClusterMean(e, l, 1)
    IN  IF idx.w > 0 /\ idx.sum * Len(e) > Sum(e) * idx.w THEN 1 ELSE 0

\* line 69: np.where(kmeans.labels_ != iidx)[0]
known_idx(l, ii) == Ascending({ i \in 1 .. Len(l) : l[i] # ii })

\* line 75: the mean of the two centres, as a fraction [num, den]
ENT_THRESHOLD(centers) ==
    [ num |-> centers[0].sum * centers[1].w + centers[1].sum * centers[0].w,
      den |-> 2 * centers[0].w * centers[1].w ]

\* lines 71-74: the arrays restricted to the KNOWN records, in known_idx's order
KnownLabelLeak(p, known) ==
    [ all_fea       |-> [j \in 1 .. Len(known) |-> p.all_fea[known[j]]],
      all_output    |-> [j \in 1 .. Len(known) |-> p.all_output[known[j]]],
      predict       |-> [j \in 1 .. Len(known) |->
                            IF p.all_label[known[j]] \in Classes
                            THEN p.all_label[known[j]] ELSE p.predict[known[j]]],
      all_label_idx |-> [j \in 1 .. Len(known) |-> p.all_label[known[j]]] ]

Known(p, known) ==
    [ all_fea       |-> [j \in 1 .. Len(known) |-> p.all_fea[known[j]]],
      all_output    |-> [j \in 1 .. Len(known) |-> p.all_output[known[j]]],
      predict       |-> [j \in 1 .. Len(known) |-> p.predict[known[j]]],
      all_label_idx |-> [j \in 1 .. Len(known) |-> p.all_label[known[j]]] ]

\* ------------------------------------------- prototypes and assignment
\* np.eye(K)[pred]: one one-hot row per record
eye(pred) == [j \in 1 .. Len(pred) |-> [k \in Classes |-> IF pred[j] = k THEN 1 ELSE 0]]

\* lines 80-81 and 92-93: aff.T.dot(all_fea) / (1e-8 + aff.sum(axis=0)), one
\* fraction [sum, w] per class; a class of weight 0 has the prototype 0
initc(aff, all_fea) ==
    [k \in Classes |->
        LET w == Sum([j \in 1 .. Len(aff) |-> aff[j][k]])
        IN  IF w = 0 THEN [sum |-> 0, w |-> 1]
            ELSE [sum |-> Sum([j \in 1 .. Len(aff) |-> aff[j][k] * all_fea[j]]),
                  w   |-> w]]

\* line 82: np.eye(K)[predict].sum(axis=0)
cls_count(pred) ==
    [k \in Classes |-> Sum([j \in 1 .. Len(pred) |-> eye(pred)[j][k]])]

\* lines 83-84: np.where(cls_count > cfg.train.threshold)[0]
labelset(count, threshold) == Ascending({ k \in Classes : count[k] > threshold })

\* lines 86-87 and 94-95 for one record: cdist to initc[labelset], then
\* argmin: the first position of labelset whose prototype is nearest
argmin(x, protos, lset) ==
    CHOOSE q \in 1 .. Len(lset) :
        /\ \A r \in 1 .. Len(lset) : NoFarther(x, protos[lset[q]], protos[lset[r]])
        /\ \A r \in 1 .. (q - 1) : Nearer(x, protos[lset[q]], protos[lset[r]])

\* lines 86-88 and 94-96: labelset[dd.argmin(axis=1)]
pred_labelNoMap(all_fea, protos, lset) ==
    [j \in 1 .. Len(all_fea) |-> argmin(all_fea[j], protos, lset) - 1]

pred_label(all_fea, protos, lset) ==
    [j \in 1 .. Len(all_fea) |-> lset[argmin(all_fea[j], protos, lset)]]

\* line 90: range(1)
Rounds == 1

\* lines 90-96: the refinement rounds; labelset is not recomputed
RECURSIVE refineRelabel(_, _, _, _, _)
refineRelabel(r, pred, all_fea, lset, threshold) ==
    IF r = 0 THEN [pred_label |-> pred, labelset |-> lset]
    ELSE LET ls == labelset(cls_count(pred), threshold)
         IN  IF ls = <<>> THEN [pred_label |-> pred, labelset |-> ls]
             ELSE refineRelabel(r - 1, pred_label(all_fea, initc(eye(pred), all_fea), ls),
                                all_fea, ls, threshold)

RECURSIVE refineLoop(_, _, _, _, _)
refineLoop(r, pred, all_fea, lset, threshold) ==
    IF r = 0 THEN [pred_label |-> pred, labelset |-> lset]
    ELSE refineLoop(r - 1, pred_label(all_fea, initc(eye(pred), all_fea), lset),
                    all_fea, lset, threshold)

refine(r, pred, all_fea, lset, threshold) == refineLoop(r, pred, all_fea, lset, threshold)

\* lines 98-99: the sentinel everywhere, then guess_label[known_idx] = pred_label
guess_labelPacked(n, known, pred) ==
    [i \in 1 .. n |-> IF i <= Len(known) THEN pred[i] ELSE class_num]

guess_labelOffByOne(n, known, pred) ==
    [i \in 1 .. n |->
        IF \E j \in 1 .. Len(known) : known[j] = i
        THEN pred[CHOOSE j \in 1 .. Len(known) : known[j] = i]
        ELSE class_num + 1]

guess_label(n, known, pred) ==
    [i \in 1 .. n |->
        IF \E j \in 1 .. Len(known) : known[j] = i
        THEN pred[CHOOSE j \in 1 .. Len(known) : known[j] = i]
        ELSE class_num]

\* line 101: np.sum(guess_label == all_label) / len(all_label_idx)
after_acc(guess, all_label, known) ==
    [ num |-> Cardinality({ i \in DOMAIN guess : guess[i] = all_label[i] }),
      den |-> Len(known) ]

\* ---------------------------------------------------------- obtain_label
\* lines 30-106 on the pass `data` of the loader, with kmeans.labels_ = l.  The
\* frame of the call: its locals, and whether it returned or raised (dd.argmin of line
\* 87 raises ValueError on an empty labelset: an empty sequence has no argmin)
obtain_label(data, config, l) ==
    LET pr    == predict(data.out)
        e     == ent(data.out)
        ii    == iidx(e, l)
        known == known_idx(l, ii)
        sub   == Known([all_fea |-> data.fea, all_output |-> data.out,
                        predict |-> pr, all_label |-> data.lab], known)
        count == cls_count(sub.predict)
        lset  == labelset(count, config.threshold)
        head  == [ predict |-> pr, ent |-> e, labels_ |-> l, iidx |-> ii,
                   known_idx |-> known, cls_count |-> count,
                   before_acc |-> before_acc(pr, data.lab),
                   ENT_THRESHOLD |-> ENT_THRESHOLD(cluster_centers_(e, l)) ]
    IN  IF lset = <<>>
        THEN head @@ [ raised |-> TRUE, labelset |-> lset, pred_label0 |-> None,
                       pred_label |-> None, guess_label |-> None, after_acc |-> None ]
        ELSE LET p0    == pred_label(sub.all_fea, initc(sub.all_output, sub.all_fea), lset)
                 fin   == refine(Rounds, p0, sub.all_fea, lset, config.threshold)
                 guess == guess_label(Len(data.fea), known, fin.pred_label)
             IN  head @@ [ raised |-> FALSE, labelset |-> fin.labelset,
                           pred_label0 |-> p0, pred_label |-> fin.pred_label,
                           guess_label |-> guess,
                           after_acc |-> after_acc(guess, data.lab, known) ]

\* ----------------------------------------------------------------- train
\* the selection of lines 157-158 with <= in place of <
outputs_test_knownWithSentinel(mem, tar_idx) ==
    LET pred == [q \in 1 .. Len(tar_idx) |-> mem[tar_idx[q]]]
        rows == [q \in 1 .. Len(tar_idx) |-> <<tar_idx[q], pred[q]>>]
    IN  SelectSeq(rows, LAMBDA r : r[2] <= class_num)

\* lines 152, 157-158: the rows of the batch whose pseudo-label, looked up by
\* dataset index in mem_label, is below class_num, each with its target
outputs_test_known(mem, tar_idx) ==
    LET pred == [q \in 1 .. Len(tar_idx) |-> mem[tar_idx[q]]]
        rows == [q \in 1 .. Len(tar_idx) |-> <<tar_idx[q], pred[q]>>]
    IN  SelectSeq(rows, LAMBDA r : r[2] < class_num)

\* ------------------------------------------------------------------ state
VARIABLES
    pc,            \* where the run is
    cfg,           \* the configuration
    loader,        \* the pass handed to the obtain_label call under study
    frame,         \* the frame of that call
    epoch,         \* main's loop variable
    mem_label,     \* main's mem_label: None or the vector of get_mem_label
    refreshed,     \* the epoch of the last get_mem_label call, or None
    remaining,     \* train: the records the loader has not served yet
    batch,         \* train: the index of the next batch
    step,          \* train: the last batch, [tar_idx, loss, iter], or None
    netF,          \* the parameters of netF and netB: the iteration of the
                   \* optimizer step that wrote them, 0 for the loaded ones
    best_acc,      \* main's best_acc
    best_netF,     \* main's best_netF, best_netB, best_netC: None or a reference
    best_params,   \* the parameters at the validation that set best_acc
    target_F       \* what torch.save wrote to target_F.pt, target_B.pt

vars == <<pc, cfg, loader, frame, epoch, mem_label, refreshed, remaining, batch, step,
          netF, best_acc, best_netF, best_params, target_F>>

engineVars == <<loader, frame>>
mainVars == <<epoch, mem_label, refreshed, best_acc, best_netF, best_params, target_F>>
trainVars == <<remaining, batch, step, netF>>

\* more bounds
TrainSamples == 3      \* records of the dataset in the specification of train
LoopSamples == 2       \* records of the dataset in the specification of main
BatchSize == 2         \* the loader's batch size ranges over 1..BatchSize
MaxAcc == 1            \* validate's acc_os2 ranges over 0..MaxAcc
\* cfg.train.max_epoch in the specification of main: none, one and two
\* epochs between refreshes
MaxEpochs == {14, 15, 30}

Cfgs(ns, epochs, pars, sizes) ==
    [ threshold : 0 .. MaxThreshold, n : ns, max_epoch : epochs, cls_par : pars,
      batch_size : sizes ]

MainInit ==
    /\ epoch = 0
    /\ mem_label = None
    /\ refreshed = None
    /\ best_acc = 0
    /\ best_netF = None
    /\ best_params = None
    /\ target_F = None

TrainInit ==
    /\ remaining = {}
    /\ batch = 0
    /\ step = None
    /\ netF = 0

\* ------------------------------------------- one call of obtain_label
Init ==
    /\ pc = "start"
    /\ cfg \in Cfgs({NumSamples}, {15}, {1}, {1})
    /\ loader = None
    /\ frame = None
    /\ MainInit
    /\ TrainInit

ObtainLabel ==
    /\ pc = "start"
    /\ \E p \in Passes(cfg.n) :
         \E l \in KMeansFits(ent(p.out)) :
            /\ loader' = p
            /\ frame' = obtain_label(p, cfg, l)
            /\ pc' = IF frame'.raised THEN "raised" ELSE "returned"
    /\ UNCHANGED <<cfg, mainVars, trainVars>>

Next == ObtainLabel

Spec == Init /\ [][Next]_vars

\* ------------------------------------------------------------ train, main
\* line 144: len(train_loader)
len_train_loader == (cfg.n + cfg.batch_size - 1) \div cfg.batch_size

\* lines 109-115: what get_mem_label can do on a pass of n records with
\* cfg.train.threshold = t: the vectors it can return, and whether it can raise
get_mem_label(n, t) ==
    LET calls == { c \in Passes(n) \X [1 .. n -> {0, 1}] : c[2] \in KMeansFits(ent(c[1].out)) }
        call(c) == obtain_label(c[1], [threshold |-> t], c[2])
    IN  [ returns |-> { call(c).guess_label : c \in { c \in calls : ~ call(c).raised } },
          raises  |-> \E c \in calls : call(c).raised ]

\* the same, once for each dataset size and threshold of the model
MemLabelTable ==
    { <<n, t, get_mem_label(n, t)>> : n \in {LoopSamples, TrainSamples}, t \in 0 .. MaxThreshold }

MemLabelEntry == (CHOOSE r \in MemLabelTable : r[1] = cfg.n /\ r[2] = cfg.threshold)[3]
MemLabels == MemLabelEntry.returns
MemLabelRaises == MemLabelEntry.raises

\* lines 147-184: one iteration of train's loop over the loader
TrainBatch ==
    /\ pc = "train"
    /\ remaining # {}
    /\ \E b \in SUBSET remaining :
         /\ Cardinality(b) = IF Cardinality(remaining) < cfg.batch_size
                             THEN Cardinality(remaining) ELSE cfg.batch_size
         /\ LET tar_idx == Ascending(b)
                iter    == epoch * len_train_loader + batch + 1
            IN  IF mem_label = None
                THEN \* line 152: None is not subscriptable
                     /\ pc' = "raised"
                     /\ UNCHANGED <<remaining, batch, step, netF>>
                ELSE LET known == outputs_test_known(mem_label, tar_idx)
                         loss  == IF cfg.cls_par > 0 THEN known ELSE <<>>
                     IN  /\ pc' = pc
                         /\ remaining' = remaining \ b
                         /\ batch' = batch + 1
                         /\ IF known = <<>>
                            THEN \* lines 160-163: continue
                                 /\ step' = [tar_idx |-> tar_idx, loss |-> <<>>, iter |-> iter]
                                 /\ netF' = netF
                            ELSE \* lines 165-184: the loss, then optimizer.step()
                                 /\ step' = [tar_idx |-> tar_idx, loss |-> loss, iter |-> iter]
                                 /\ netF' = iter
    /\ UNCHANGED <<cfg, engineVars, mainVars>>

\* line 247
interval == cfg.max_epoch \div 15

\* lines 248-253: the top of an epoch, up to the call of train
EpochStart ==
    /\ pc = "epoch"
    /\ epoch < cfg.max_epoch
    /\ IF interval = 0
       THEN \* line 250: epoch % 0
            /\ pc' = "raised"
            /\ UNCHANGED <<mem_label, refreshed, trainVars>>
       ELSE IF epoch % interval = 0 /\ cfg.cls_par > 0
            THEN \/ /\ MemLabelRaises
                    /\ pc' = "raised"
                    /\ UNCHANGED <<mem_label, refreshed, trainVars>>
                 \/ /\ mem_label' \in MemLabels
                    /\ refreshed' = <<epoch>>
                    /\ pc' = "train"
                    /\ remaining' = 1 .. cfg.n
                    /\ batch' = 0
                    /\ step' = None
                    /\ netF' = netF
            ELSE /\ pc' = "train"
                 /\ remaining' = 1 .. cfg.n
                 /\ batch' = 0
                 /\ step' = None
                 /\ UNCHANGED <<mem_label, refreshed, netF>>
    /\ UNCHANGED <<cfg, engineVars, epoch, best_acc, best_netF, best_params, target_F>>

\* netF.state_dict() holds the parameter tensors themselves, not copies of
\* them: what is read through it is what netF holds when it is read
StateDict == <<"netF.state_dict()">>
Deref(ref) == IF ref = None THEN None ELSE <<netF>>

\* lines 255-266: after train returned, validate and keep the best
EpochEnd ==
    /\ pc = "train"
    /\ remaining = {}
    /\ IF epoch % interval = 0 \/ epoch = cfg.max_epoch
       THEN \E acc_os2 \in 0 .. MaxAcc :
               IF acc_os2 >= best_acc
               THEN /\ best_acc' = acc_os2
                    /\ best_netF' = StateDict
                    /\ best_params' = <<netF>>
               ELSE UNCHANGED <<best_acc, best_netF, best_params>>
       ELSE UNCHANGED <<best_acc, best_netF, best_params>>
    /\ epoch' = epoch + 1
    /\ pc' = "epoch"
    /\ UNCHANGED <<cfg, engineVars, mem_label, refreshed, trainVars, target_F>>

\* lines 268-270: torch.save(best_netF, "target_F.pt")
Save ==
    /\ pc = "epoch"
    /\ epoch = cfg.max_epoch
    /\ target_F' = Deref(best_netF)
    /\ pc' = "saved"
    /\ UNCHANGED <<cfg, engineVars, epoch, mem_label, refreshed, best_acc, best_netF,
                   best_params, trainVars>>

\* main of train_target_oda.py, from line 242
InitTarget ==
    /\ pc = "epoch"
    /\ cfg \in Cfgs({LoopSamples}, MaxEpochs, {0, 1}, 1 .. BatchSize)
    /\ loader = None
    /\ frame = None
    /\ MainInit
    /\ TrainInit

NextTarget == EpochStart \/ TrainBatch \/ EpochEnd \/ Save

SpecTarget == InitTarget /\ [][NextTarget]_vars

\* one call of train, on a vector get_mem_label returned
TrainReturn ==
    /\ pc = "train"
    /\ remaining = {}
    /\ pc' = "trained"
    /\ UNCHANGED <<cfg, engineVars, mainVars, trainVars>>

InitTrain ==
    /\ pc = "train"
    /\ cfg \in Cfgs({TrainSamples}, {15}, {1}, 1 .. BatchSize)
    /\ loader = None
    /\ frame = None
    /\ epoch \in 0 .. 1
    /\ mem_label \in MemLabels
    /\ refreshed = <<0>>
    /\ best_acc = 0
    /\ best_netF = None
    /\ best_params = None
    /\ target_F = None
    /\ remaining = 1 .. cfg.n
    /\ batch = 0
    /\ step = None
    /\ netF = 0

NextTrain == TrainBatch \/ TrainReturn

SpecTrain == InitTrain /\ [][NextTrain]_vars

\* =================================================================== claims
Called == pc \in {"returned", "raised"}
Returned == pc = "returned"

\* the records of each cluster of the last call, and the sum of their scores
UnknownCluster == { i \in 1 .. Len(frame.labels_) : frame.labels_[i] = frame.iidx }
KnownCluster == { i \in 1 .. Len(frame.labels_) : frame.labels_[i] # frame.iidx }
KnownSet == { frame.known_idx[j] : j \in 1 .. Len(frame.known_idx) }
EntSum(S) == Sum([i \in 1 .. Len(frame.ent) |-> IF i \in S THEN frame.ent[i] ELSE 0])

\* how many KNOWN records the classifier's argmax gives class k
ArgmaxSupport(k) == Cardinality({ i \in KnownSet : frame.predict[i] = k })
\* how many records the initial nearest-prototype assignment gives class k
Round0Support(k) ==
    Cardinality({ j \in 1 .. Len(frame.pred_label0) : frame.pred_label0[j] = k })
Elements(q) == { q[j] : j \in 1 .. Len(q) }

\* C1: the returned vector has one entry per record of the pass, and every
\* entry is a class index 0..K-1 or the sentinel K
C1_LabelRange ==
    Returned =>
        /\ DOMAIN frame.guess_label = 1 .. Len(loader.fea)
        /\ \A i \in DOMAIN frame.guess_label :
               frame.guess_label[i] \in Classes \cup {class_num}

C1_Witness ==
    /\ Returned
    /\ \E i \in DOMAIN frame.guess_label : frame.guess_label[i] = class_num
    /\ \E i \in DOMAIN frame.guess_label : frame.guess_label[i] \in Classes

\* C2: every record of the UNKNOWN cluster holds the sentinel, and the j-th
\* KNOWN record (record known_idx[j], the indices ascending) holds the class
\* the last refinement round gave the j-th row of the KNOWN subset
C2_Alignment ==
    Returned =>
        /\ \A i \in UnknownCluster : frame.guess_label[i] = class_num
        /\ KnownSet = KnownCluster
        /\ Len(frame.pred_label) = Len(frame.known_idx)
        /\ \A j \in 1 .. Len(frame.known_idx) :
               /\ frame.guess_label[frame.known_idx[j]] = frame.pred_label[j]
               /\ \A h \in 1 .. (j - 1) : frame.known_idx[h] < frame.known_idx[j]

\* a KNOWN record that is not at its own position in the subset, with two
\* classes assigned
C2_Witness ==
    /\ Returned
    /\ \E j \in 1 .. Len(frame.known_idx) : frame.known_idx[j] # j
    /\ \E j, h \in 1 .. Len(frame.pred_label) : frame.pred_label[j] # frame.pred_label[h]

\* C3: when the fit has two clusters, the cluster removed from known_idx is
\* the one of higher mean entropy and the KNOWN subset is exactly the other
\* one; every UNKNOWN score lies above every KNOWN score
C3_UnknownIsHighEntropy ==
    Called =>
        /\ KnownSet = KnownCluster
        /\ (UnknownCluster # {} /\ KnownCluster # {}) =>
              /\ EntSum(UnknownCluster) * Cardinality(KnownCluster)
                     > EntSum(KnownCluster) * Cardinality(UnknownCluster)
              /\ \A i \in UnknownCluster : \A j \in KnownCluster :
                     frame.ent[i] > frame.ent[j]

\* two clusters, and it is cluster 0 that is UNKNOWN
C3_Witness ==
    /\ Called
    /\ frame.iidx = 0
    /\ UnknownCluster # {}
    /\ KnownCluster # {}

\* C4: a class whose argmax count over the KNOWN records does not exceed
\* cfg.train.threshold is not in labelset, is assigned to no record by the
\* initial assignment or by the refinement, and every class of the KNOWN part
\* of the output is in labelset
C4_MinimumSupport ==
    Returned =>
        /\ \A k \in Classes :
               ArgmaxSupport(k) <= cfg.threshold =>
                   /\ k \notin Elements(frame.labelset)
                   /\ k \notin Elements(frame.pred_label0)
                   /\ k \notin Elements(frame.pred_label)
        /\ \A i \in KnownSet : frame.guess_label[i] \in Elements(frame.labelset)

\* an under-supported class whose soft prototype is strictly the nearest one
\* to some KNOWN record
C4_Witness ==
    /\ Returned
    /\ LET fea    == [j \in 1 .. Len(frame.known_idx) |-> loader.fea[frame.known_idx[j]]]
           out    == [j \in 1 .. Len(frame.known_idx) |-> loader.out[frame.known_idx[j]]]
           protos == initc(out, fea)
       IN  \E k \in Classes :
              /\ ArgmaxSupport(k) <= cfg.threshold
              /\ \E j \in 1 .. Len(fea) :
                     \A q \in Elements(frame.labelset) :
                         Nearer(fea[j], protos[k], protos[q])

\* C5: with an empty labelset the call still returns: the classifier's argmax
\* for the KNOWN records and the sentinel for the UNKNOWN ones
C5_EmptyLabelSetDegrades ==
    (Called /\ frame.labelset = <<>>) =>
        /\ pc = "returned"
        /\ frame.guess_label =
              [i \in 1 .. Len(loader.fea) |->
                  IF i \in KnownSet THEN frame.predict[i] ELSE class_num]

\* C6: the same records with any other ground-truth labels give the same
\* outcome, pseudo-label vector and threshold
C6_GroundTruthIgnored ==
    Called =>
        \A lab2 \in GroundTruths(Len(loader.fea)) :
            LET other == obtain_label([loader EXCEPT !.lab = lab2], cfg, frame.labels_)
            IN  /\ other.raised = frame.raised
                /\ other.guess_label = frame.guess_label
                /\ other.ENT_THRESHOLD = frame.ENT_THRESHOLD

\* two label vectors for which the logged accuracies differ
C6_Witness ==
    /\ Returned
    /\ \E lab2 \in GroundTruths(Len(loader.fea)) :
           LET other == obtain_label([loader EXCEPT !.lab = lab2], cfg, frame.labels_)
           IN  /\ other.before_acc # frame.before_acc
               /\ other.after_acc # frame.after_acc

\* C9 as stated: the labelset of the refinement round is the set of classes
\* that the previous round gave more than cfg.train.threshold records
C9_LabelSetFromPreviousRound ==
    Returned =>
        Elements(frame.labelset) = { k \in Classes : Round0Support(k) > cfg.threshold }

\* C9 as amended: the labelset of the refinement round is the one computed
\* once from the classifier's argmax over the KNOWN records, whatever the
\* previous round assigned, and the refinement assigns only classes of it
C9_LabelSetFromArgmax ==
    Returned =>
        /\ Elements(frame.labelset) = { k \in Classes : ArgmaxSupport(k) > cfg.threshold }
        /\ Elements(frame.pred_label) \subseteq Elements(frame.labelset)

\* a class the previous round left with no more than the threshold is still
\* in the labelset of the refinement round
C9_Witness ==
    /\ Returned
    /\ \E k \in Elements(frame.labelset) : Round0Support(k) <= cfg.threshold

\* C7: the classification loss of a batch is computed over exactly the records
\* of the batch whose pseudo-label, looked up by dataset index, is below the
\* sentinel, each against its own pseudo-label; a batch with no such record is
\* skipped without a loss and without an optimizer step
C7_SentinelExcluded ==
    (pc \in {"train", "trained"} /\ step # None) =>
        LET kept == { x \in Elements(step.tar_idx) : mem_label[x] < class_num }
        IN  /\ { r[1] : r \in Elements(step.loss) } = kept
            /\ \A r \in Elements(step.loss) : r[2] = mem_label[r[1]] /\ r[2] < class_num
            /\ kept = {} => (step.loss = <<>> /\ netF # step.iter)
            /\ kept # {} => netF = step.iter

\* a batch that holds a record with the sentinel and a record without it
C7_Witness ==
    /\ pc = "train"
    /\ step # None
    /\ step.loss # <<>>
    /\ \E x \in Elements(step.tar_idx) : mem_label[x] = class_num

\* C8: whenever train is running, a pseudo-label vector has been produced, and
\* it was produced at the last epoch that is a multiple of interval
C8_TrainsOnFreshLabels ==
    pc = "train" =>
        /\ mem_label # None
        /\ refreshed = <<epoch - (epoch % interval)>>

\* C10: what best_netF gives is the parameters of the validation that set
\* best_acc, and that is what is saved to target_F.pt
C10_BestIsSnapshot ==
    /\ best_netF # None => Deref(best_netF) = best_params
    /\ pc = "saved" => target_F = best_params

====
